---- MODULE Spec2Model ----
(***************************************************************************)
(* good_fpu_control_registers (rts/System/Sync/FPUCheck.cpp): the check of *)
(* the calling thread's FPU control registers against the sync-safe        *)
(* states, and the reset to single precision when the check fails.         *)
(*                                                                         *)
(* A thread's floating-point environment is a pair of 16-bit control words *)
(* (sse = MXCSR, x87 = FPUCW).  The build is fixed by two switches: the    *)
(* register layout (STREFLOP_SSE, STREFLOP_X87, or neither) and            *)
(* __SUPPORT_SNAN__ && !USE_GML.  One call of the function is a sequence   *)
(* of steps of the calling thread (fegetenv, the two LOG_L, streflop_init, *)
(* feraiseexcept), so that calls of different threads interleave.          *)
(***************************************************************************)
EXTENDS Integers, Sequences, FiniteSets

VARIABLES
    layout,     \* "SSE" (STREFLOP_SSE), "X87" (STREFLOP_X87) or "NONE"
    snan,       \* TRUE iff defined(__SUPPORT_SNAN__) && !defined(USE_GML)
    env,        \* env[t]: thread t's floating-point environment [sse, x87]
    pc,         \* pc[t]: where thread t is in good_fpu_control_registers
    text,       \* text[t]: the argument of t's current call
    fenv,       \* fenv[t]: the local fenv filled by fegetenv
    ret,        \* ret[t]: the local ret
    trace,      \* trace[t]: what t's current call did, in order
    env0,       \* env0[t]: t's environment when its current call began
    afterReset  \* afterReset[t]: the current call immediately follows a call
                \* of t that reset the environment

vars == <<layout, snan, env, pc, text, fenv, ret, trace, env0, afterReset>>

---------------------------------------------------------------------------
(* Bounds and input sets *)

NumThreads == 2

Threads == 1 .. NumThreads

\* The thread of the single-thread specification
MainThread == {1}

Labels == {"SimFrame", "Update"}

\* MXCSR values: Spring1, Spring2/Default, the -fsignaling-nans state, its
\* unmasked base pattern, Spring2 with exception flags set, Spring2 with FZ,
\* Spring1 with exception flags set.
SSEWords == {\H1D00, \H1F80, \H1900, \H1937, \H1F9F, \H9F80, \H1D3F}

\* FPUCW values: Spring1, Spring2, Intel default, the -fsignaling-nans state,
\* its unmasked base pattern, Spring2 with reserved bits 6 and 7 set, Spring1
\* with reserved bit 6 set.
X87Words == {\H003A, \H003F, \H033F, \H0032, \H0072, \H00FF, \H007A}

\* The smaller input sets of the multi-thread specification.
SSEWordsMT == {\H1F80, \H1900, \H1F9F}

X87WordsMT == {\H003F, \H033F, \H0032}

---------------------------------------------------------------------------
(* Integer operators of the source *)

RECURSIVE BitAnd(_, _)
BitAnd(a, b) ==
    IF a = 0 \/ b = 0 THEN 0
    ELSE (a % 2) * (b % 2) + 2 * BitAnd(a \div 2, b \div 2)

RECURSIVE BitOr(_, _)
BitOr(a, b) ==
    IF a = 0 THEN b
    ELSE IF b = 0 THEN a
    ELSE (IF a % 2 = 1 \/ b % 2 = 1 THEN 1 ELSE 0) + 2 * BitOr(a \div 2, b \div 2)

SSE_MASK == \HFF80

X87_MASK == \H1F3F

\* "Default": the control words of a thread that nothing has touched yet
SSE_DEFAULT == \H1F80

X87_DEFAULT == \H033F

\* FE_INVALID | FE_DIVBYZERO | FE_OVERFLOW, at the positions of IE, ZE and OE
FE_RAISED == \H000D

sse_a == IF snan THEN BitAnd(\H1937, \HFF80) ELSE \H1D00

sse_b == IF snan THEN BitAnd(\H1925, \HFF80) ELSE \H1F80

x87_a == IF snan THEN BitAnd(\H0072, \H1F3F) ELSE \H003A

x87_b == \H003F

---------------------------------------------------------------------------
(* printf's %04X: upper-case hexadecimal digits, most significant first,   *)
(* zero-padded to a width of at least four                                 *)

RECURSIVE HexDigits(_)
HexDigits(n) == IF n < 16 THEN <<n>> ELSE Append(HexDigits(n \div 16), n % 16)

Hex04X(n) ==
    LET d == HexDigits(n)
    IN  IF Len(d) >= 4 THEN d ELSE [i \in 1 .. (4 - Len(d)) |-> 0] \o d

---------------------------------------------------------------------------
(* What a call does, as entries of trace[t] *)

NoExcepts == {}

FegetenvEv ==
    [op |-> "fegetenv", reg |-> "", actual |-> <<>>, a |-> <<>>, b |-> <<>>,
     text |-> "", excepts |-> NoExcepts]

\* LOG_L(L_WARNING, "... <reg> 0x%04X instead of 0x%04X or 0x%04X (\"%s\")", ...)
LogLine(reg, actual, a, b, txt) ==
    [op |-> "LOG_L", reg |-> reg, actual |-> Hex04X(actual), a |-> Hex04X(a),
     b |-> Hex04X(b), text |-> txt, excepts |-> NoExcepts]

StreflopInitEv ==
    [op |-> "streflop_init<Simple>", reg |-> "", actual |-> <<>>, a |-> <<>>,
     b |-> <<>>, text |-> "", excepts |-> NoExcepts]

FeraiseexceptEv(excepts) ==
    [op |-> "feraiseexcept", reg |-> "", actual |-> <<>>, a |-> <<>>,
     b |-> <<>>, text |-> "", excepts |-> excepts]

NoEnv == [sse |-> 0, x87 |-> 0]

---------------------------------------------------------------------------
(* The checks and the log lines of the two layouts *)

\* RetSSE accepting only the two profiles as pairs
RetSSE_Paired(f) ==
    \/ (BitAnd(f.sse, SSE_MASK) = sse_a /\ BitAnd(f.x87, X87_MASK) = x87_a)
    \/ (BitAnd(f.sse, SSE_MASK) = sse_b /\ BitAnd(f.x87, X87_MASK) = x87_b)

\* RetSSE without the comparison against sse_a
RetSSE_OnlyB(f) ==
    /\ BitAnd(f.sse, SSE_MASK) = sse_b
    /\ (BitAnd(f.x87, X87_MASK) = x87_a \/ BitAnd(f.x87, X87_MASK) = x87_b)

\* RetSSE comparing the unmasked registers
RetSSE_NoMask(f) ==
    /\ (f.sse = sse_a \/ f.sse = sse_b)
    /\ (f.x87 = x87_a \/ f.x87 = x87_b)

\* bool ret of the STREFLOP_SSE branch
RetSSE(f) ==
    /\ (BitAnd(f.sse, SSE_MASK) = sse_a \/ BitAnd(f.sse, SSE_MASK) = sse_b)
    /\ (BitAnd(f.x87, X87_MASK) = x87_a \/ BitAnd(f.x87, X87_MASK) = x87_b)

\* RetX87 comparing the unmasked register
RetX87_NoMask(f) ==
    f.x87 = x87_a \/ f.x87 = x87_b

\* bool ret of the STREFLOP_X87 branch
RetX87(f) ==
    BitAnd(f.x87, X87_MASK) = x87_a \/ BitAnd(f.x87, X87_MASK) = x87_b

\* LogSSE with each LOG_L under the test of its own register
LogSSE_FailingOnly(f, txt) ==
    (IF BitAnd(f.sse, SSE_MASK) = sse_a \/ BitAnd(f.sse, SSE_MASK) = sse_b
     THEN <<>> ELSE << LogLine("MXCSR", f.sse, sse_a, sse_b, txt) >>)
    \o
    (IF BitAnd(f.x87, X87_MASK) = x87_a \/ BitAnd(f.x87, X87_MASK) = x87_b
     THEN <<>> ELSE << LogLine("FPUCW", f.x87, x87_a, x87_b, txt) >>)

\* LogSSE with the MXCSR line left out
LogSSE_X87Only(f, txt) ==
    << LogLine("FPUCW", f.x87, x87_a, x87_b, txt) >>

\* the two LOG_L of the STREFLOP_SSE branch
LogSSE(f, txt) ==
    << LogLine("MXCSR", f.sse, sse_a, sse_b, txt),
       LogLine("FPUCW", f.x87, x87_a, x87_b, txt) >>

\* LogX87 printing the masked register
LogX87_Masked(f, txt) ==
    << LogLine("FPUCW", BitAnd(f.x87, X87_MASK), x87_a, x87_b, txt) >>

\* the LOG_L of the STREFLOP_X87 branch
LogX87(f, txt) ==
    << LogLine("FPUCW", f.x87, x87_a, x87_b, txt) >>

\* the exception set handed to feraiseexcept
RaisedExcepts == {"FE_INVALID", "FE_DIVBYZERO", "FE_OVERFLOW"}

\* AfterInit with feraiseexcept outside the #if
AfterInit_Always == "raise"

\* AfterInit going back to fegetenv to verify the reset
AfterInit_Reverify == "entry"

\* #if defined(__SUPPORT_SNAN__) && !defined(USE_GML) around feraiseexcept
AfterInit == IF snan THEN "raise" ELSE "done"

---------------------------------------------------------------------------
(* The deterministic-math library (lib/streflop), by its description *)

\* streflop_init<streflop::Simple>(): the environment of the reduced
\* precision mode, which is the accepted state used outside SimFrame
StreflopInitSimple(e) ==
    IF layout = "SSE" THEN [sse |-> sse_b, x87 |-> x87_b]
    ELSE [sse |-> e.sse, x87 |-> x87_b]

\* streflop::feraiseexcept: the exception flags IE, ZE and OE, which are bits
\* of MXCSR and no bits of the x87 control word
Feraiseexcept(e) ==
    IF layout = "SSE" THEN [e EXCEPT !.sse = BitOr(@, FE_RAISED)] ELSE e

---------------------------------------------------------------------------
(* Initial states *)

Envs(S, X) ==
    IF layout = "X87" THEN {[sse |-> 0, x87 |-> x] : x \in X}
    ELSE {[sse |-> s, x87 |-> x] : s \in S, x \in X}

\* A thread starts with the default control words.
DefaultEnv ==
    [sse |-> IF layout = "X87" THEN 0 ELSE SSE_DEFAULT, x87 |-> X87_DEFAULT]

InitFor(T) ==
    /\ layout \in {"SSE", "X87", "NONE"}
    /\ snan \in BOOLEAN
    /\ env = [t \in T |-> DefaultEnv]
    /\ pc = [t \in T |-> "idle"]
    /\ text = [t \in T |-> ""]
    /\ fenv = [t \in T |-> NoEnv]
    /\ ret = [t \in T |-> TRUE]
    /\ trace = [t \in T |-> <<>>]
    /\ env0 = [t \in T |-> NoEnv]
    /\ afterReset = [t \in T |-> FALSE]

Init == InitFor(MainThread)

InitMT == InitFor(Threads)

---------------------------------------------------------------------------
(* Steps of thread t *)

HasOp(tr, op) == \E i \in 1 .. Len(tr) : tr[i].op = op

\* Code outside the function (a library, a driver) changes t's environment.
Clobber(t, S, X) ==
    /\ pc[t] = "idle"
    /\ \E e \in Envs(S, X) : env' = [env EXCEPT ![t] = e]
    /\ UNCHANGED <<layout, snan, pc, text, fenv, ret, trace, env0, afterReset>>

\* good_fpu_control_registers(txt) is entered, by a thread that is outside
\* it or has just returned from it.
Call(t, txt) ==
    /\ pc[t] \in {"idle", "done"}
    /\ pc' = [pc EXCEPT ![t] = "entry"]
    /\ text' = [text EXCEPT ![t] = txt]
    /\ fenv' = [fenv EXCEPT ![t] = NoEnv]
    /\ ret' = [ret EXCEPT ![t] = TRUE]
    /\ trace' = [trace EXCEPT ![t] = <<>>]
    /\ env0' = [env0 EXCEPT ![t] = env[t]]
    /\ afterReset' = [afterReset EXCEPT ![t] =
                        pc[t] = "done" /\ HasOp(trace[t], "streflop_init<Simple>")]
    /\ UNCHANGED <<layout, snan, env>>

\* Neither STREFLOP_SSE nor STREFLOP_X87: the body is empty.
EmptyBody(t) ==
    /\ pc[t] = "entry"
    /\ layout = "NONE"
    /\ pc' = [pc EXCEPT ![t] = "done"]
    /\ UNCHANGED <<layout, snan, env, text, fenv, ret, trace, env0, afterReset>>

\* fegetenv(&fenv) and the computation of ret
Fegetenv(t) ==
    /\ pc[t] = "entry"
    /\ layout \in {"SSE", "X87"}
    /\ LET r == IF layout = "SSE" THEN RetSSE(env[t]) ELSE RetX87(env[t])
       IN  /\ ret' = [ret EXCEPT ![t] = r]
           /\ pc' = [pc EXCEPT ![t] = IF r THEN "done" ELSE "log"]
    /\ fenv' = [fenv EXCEPT ![t] = env[t]]
    /\ trace' = [trace EXCEPT ![t] = Append(@, FegetenvEv)]
    /\ UNCHANGED <<layout, snan, env, text, env0, afterReset>>

\* if (!ret) { LOG_L(...); [LOG_L(...);]
Log(t) ==
    /\ pc[t] = "log"
    /\ trace' = [trace EXCEPT ![t] =
                   @ \o (IF layout = "SSE" THEN LogSSE(fenv[t], text[t])
                                           ELSE LogX87(fenv[t], text[t]))]
    /\ pc' = [pc EXCEPT ![t] = "init"]
    /\ UNCHANGED <<layout, snan, env, text, fenv, ret, env0, afterReset>>

\* StreflopInit writing one environment shared by all threads
StreflopInit_Shared(t) ==
    /\ pc[t] = "init"
    /\ env' = [u \in DOMAIN env |-> StreflopInitSimple(env[t])]
    /\ trace' = [trace EXCEPT ![t] = Append(@, StreflopInitEv)]
    /\ pc' = [pc EXCEPT ![t] = AfterInit]
    /\ UNCHANGED <<layout, snan, text, fenv, ret, env0, afterReset>>

\* streflop_init<streflop::Simple>();
StreflopInit(t) ==
    /\ pc[t] = "init"
    /\ env' = [env EXCEPT ![t] = StreflopInitSimple(@)]
    /\ trace' = [trace EXCEPT ![t] = Append(@, StreflopInitEv)]
    /\ pc' = [pc EXCEPT ![t] = AfterInit]
    /\ UNCHANGED <<layout, snan, text, fenv, ret, env0, afterReset>>

\* streflop::feraiseexcept(FE_INVALID | FE_DIVBYZERO | FE_OVERFLOW);
FeRaiseExcept(t) ==
    /\ pc[t] = "raise"
    /\ env' = [env EXCEPT ![t] = Feraiseexcept(@)]
    /\ trace' = [trace EXCEPT ![t] = Append(@, FeraiseexceptEv(RaisedExcepts))]
    /\ pc' = [pc EXCEPT ![t] = "done"]
    /\ UNCHANGED <<layout, snan, text, fenv, ret, env0, afterReset>>

\* The caller goes on with other code; the locals of the call are gone.
Continue(t) ==
    /\ pc[t] = "done"
    /\ pc' = [pc EXCEPT ![t] = "idle"]
    /\ text' = [text EXCEPT ![t] = ""]
    /\ fenv' = [fenv EXCEPT ![t] = NoEnv]
    /\ ret' = [ret EXCEPT ![t] = TRUE]
    /\ trace' = [trace EXCEPT ![t] = <<>>]
    /\ env0' = [env0 EXCEPT ![t] = NoEnv]
    /\ afterReset' = [afterReset EXCEPT ![t] = FALSE]
    /\ UNCHANGED <<layout, snan, env>>

\* The steps of the function body of thread t
Body(t) ==
    EmptyBody(t) \/ Fegetenv(t) \/ Log(t) \/ StreflopInit(t) \/ FeRaiseExcept(t)

Next ==
    \E t \in MainThread :
        \/ Clobber(t, SSEWords, X87Words)
        \/ \E txt \in Labels : Call(t, txt)
        \/ EmptyBody(t)
        \/ Fegetenv(t)
        \/ Log(t)
        \/ StreflopInit(t)
        \/ FeRaiseExcept(t)
        \/ Continue(t)

NextMT ==
    \E t \in Threads :
        \/ Clobber(t, SSEWordsMT, X87WordsMT)
        \/ Call(t, "SimFrame")
        \/ EmptyBody(t)
        \/ Fegetenv(t)
        \/ Log(t)
        \/ StreflopInit(t)
        \/ FeRaiseExcept(t)
        \/ Continue(t)

\* One thread, the full input sets
Spec == Init /\ [][Next]_vars

\* A thread that has entered the function runs it: nothing in the body waits.
FairSpec == Init /\ [][Next]_vars /\ \A t \in MainThread : WF_vars(Body(t))

\* NumThreads threads, calls interleaved step by step
SpecMT == InitMT /\ [][NextMT]_vars

---------------------------------------------------------------------------
(* Vocabulary of the properties *)

\* The accepted values of each register, as the specification lists them.
AcceptedSSE ==
    IF snan THEN {BitAnd(\H1937, \HFF80), BitAnd(\H1925, \HFF80)}
            ELSE {\H1D00, \H1F80}

AcceptedX87 ==
    IF snan THEN {BitAnd(\H0072, \H1F3F), BitAnd(\H003F, \H1F3F)}
            ELSE {\H003A, \H003F}

SseOk(e) == BitAnd(e.sse, \HFF80) \in AcceptedSSE

X87Ok(e) == BitAnd(e.x87, \H1F3F) \in AcceptedX87

\* Valid in the layout of the build
ValidEnv(e) == IF layout = "SSE" THEN SseOk(e) /\ X87Ok(e) ELSE X87Ok(e)

Done(t) == pc[t] = "done"

OpsOf(tr, op) == SelectSeq(tr, LAMBDA ev : ev.op = op)

Lines(tr) == OpsOf(tr, "LOG_L")

LinesOf(tr, reg) == SelectSeq(tr, LAMBDA ev : ev.op = "LOG_L" /\ ev.reg = reg)

Count(tr, op) == Len(OpsOf(tr, op))

\* Every op1 entry of tr comes before every op2 entry.
Before(tr, op1, op2) ==
    \A i, j \in 1 .. Len(tr) : tr[i].op = op1 /\ tr[j].op = op2 => i < j

\* The value of register reg in environment e
RegOf(e, reg) == IF reg = "MXCSR" THEN e.sse ELSE e.x87

MaskOf(reg) == IF reg = "MXCSR" THEN \HFF80 ELSE \H1F3F

---------------------------------------------------------------------------
(* C1 *)

\* C1: in the combined layout the call finds the environment valid exactly
\* when the masked MXCSR is one of its two accepted values and the masked
\* FPUCW is one of its two accepted values, each register against its own
\* set: Spring1's MXCSR with Spring2's FPUCW is valid.
C1_Theorem ==
    \A t \in DOMAIN pc :
        (layout = "SSE" /\ pc[t] \in {"log", "init", "raise", "done"})
            => /\ ret[t] = (SseOk(fenv[t]) /\ X87Ok(fenv[t]))
               /\ pc[t] \in {"log", "init", "raise"} => ~(SseOk(fenv[t]) /\ X87Ok(fenv[t]))

\* Spring1's MXCSR with Spring2's FPUCW has been found valid.
C1_Witness ==
    \E t \in DOMAIN pc :
        /\ layout = "SSE" /\ ~snan /\ Done(t)
        /\ BitAnd(fenv[t].sse, \HFF80) = \H1D00
        /\ BitAnd(fenv[t].x87, \H1F3F) = \H003F
        /\ ret[t]

---------------------------------------------------------------------------
(* C2 *)

\* C2: a call that began in a valid environment, in either layout and either
\* build, has logged nothing, has called neither streflop_init nor
\* feraiseexcept, and has left the environment as it was.
C2_Theorem ==
    \A t \in DOMAIN pc :
        (layout # "NONE" /\ Done(t) /\ ValidEnv(env0[t]))
            => /\ Lines(trace[t]) = <<>>
               /\ Count(trace[t], "streflop_init<Simple>") = 0
               /\ Count(trace[t], "feraiseexcept") = 0
               /\ env[t] = env0[t]

\* A call has returned from a valid environment with reserved bits set, in
\* the signaling-NaN build.
C2_Witness ==
    \E t \in DOMAIN pc :
        /\ layout = "SSE" /\ snan /\ Done(t)
        /\ env0[t] = [sse |-> \H1937, x87 |-> \H0072]
        /\ trace[t] = <<FegetenvEv>>

---------------------------------------------------------------------------
(* C3 *)

\* C3 as claimed: in the combined layout a warning line is emitted for a
\* register only if that register's own masked value is not accepted.
C3_Original ==
    \A t \in DOMAIN pc :
        (layout = "SSE" /\ Done(t))
            => \A i \in 1 .. Len(trace[t]) :
                   trace[t][i].op = "LOG_L"
                       => /\ trace[t][i].reg = "MXCSR" => ~SseOk(fenv[t])
                          /\ trace[t][i].reg = "FPUCW" => ~X87Ok(fenv[t])

\* C3 as amended: in the combined layout a call on an invalid environment
\* emits both lines, the MXCSR line and then the FPUCW line, whichever
\* register failed; a call on a valid environment emits none.
C3_Theorem ==
    \A t \in DOMAIN pc :
        (layout = "SSE" /\ Done(t))
            => IF SseOk(fenv[t]) /\ X87Ok(fenv[t])
               THEN Lines(trace[t]) = <<>>
               ELSE /\ Len(Lines(trace[t])) = 2
                    /\ Lines(trace[t])[1].reg = "MXCSR"
                    /\ Lines(trace[t])[2].reg = "FPUCW"

\* MXCSR 0x1900 with FPUCW 0x003A in the plain build: two lines.
C3_Witness ==
    \E t \in DOMAIN pc :
        /\ layout = "SSE" /\ ~snan /\ Done(t)
        /\ fenv[t] = [sse |-> \H1900, x87 |-> \H003A]
        /\ Len(Lines(trace[t])) = 2

---------------------------------------------------------------------------
(* C4 *)

\* C4: in the combined layout, a call that began with an MXCSR that is not
\* accepted has emitted exactly one line about MXCSR and, after all logging,
\* exactly one streflop_init; likewise for FPUCW, also when MXCSR is accepted.
C4_Theorem ==
    \A t \in DOMAIN pc :
        (layout = "SSE" /\ Done(t))
            => /\ ~SseOk(env0[t])
                    => /\ Len(LinesOf(trace[t], "MXCSR")) = 1
                       /\ Count(trace[t], "streflop_init<Simple>") = 1
                       /\ Before(trace[t], "LOG_L", "streflop_init<Simple>")
               /\ ~X87Ok(env0[t])
                    => /\ Len(LinesOf(trace[t], "FPUCW")) = 1
                       /\ Count(trace[t], "streflop_init<Simple>") = 1
                       /\ Before(trace[t], "LOG_L", "streflop_init<Simple>")

\* MXCSR accepted, FPUCW not: the FPUCW line and the reset have happened.
C4_Witness ==
    \E t \in DOMAIN pc :
        /\ layout = "SSE" /\ Done(t)
        /\ SseOk(env0[t]) /\ ~X87Ok(env0[t])
        /\ Len(LinesOf(trace[t], "FPUCW")) = 1
        /\ Count(trace[t], "streflop_init<Simple>") = 1

---------------------------------------------------------------------------
(* C5 *)

---------------------------------------------------------------------------
(* C6 *)

\* C6: in the legacy layout the call finds the environment valid exactly when
\* the masked FPUCW is one of its two accepted values; an invalid one gets
\* exactly one warning line and then exactly one streflop_init.  In the plain
\* build 0x003A is valid (no line, no reset) and 0x033F is not (one line
\* with 033F, 003A and 003F, then the reset).
C6_Theorem ==
    \A t \in DOMAIN pc :
        (layout = "X87" /\ Done(t))
            => /\ ret[t] = X87Ok(fenv[t])
               /\ X87Ok(fenv[t])
                    => /\ Lines(trace[t]) = <<>>
                       /\ Count(trace[t], "streflop_init<Simple>") = 0
               /\ ~X87Ok(fenv[t])
                    => /\ Len(Lines(trace[t])) = 1
                       /\ Count(trace[t], "streflop_init<Simple>") = 1
                       /\ Before(trace[t], "LOG_L", "streflop_init<Simple>")
               /\ (~snan /\ fenv[t].x87 = \H003A)
                    => /\ Lines(trace[t]) = <<>>
                       /\ Count(trace[t], "streflop_init<Simple>") = 0
               /\ (~snan /\ fenv[t].x87 = \H033F)
                    => /\ Len(Lines(trace[t])) = 1
                       /\ Lines(trace[t])[1].actual = <<0, 3, 3, 15>>
                       /\ Lines(trace[t])[1].a = <<0, 0, 3, 10>>
                       /\ Lines(trace[t])[1].b = <<0, 0, 3, 15>>
                       /\ Count(trace[t], "streflop_init<Simple>") = 1

\* The default FPUCW 0x033F has been logged and reset in the plain build.
C6_Witness ==
    \E t \in DOMAIN pc :
        /\ layout = "X87" /\ ~snan /\ Done(t)
        /\ fenv[t].x87 = \H033F
        /\ Len(Lines(trace[t])) = 1
        /\ Count(trace[t], "streflop_init<Simple>") = 1

---------------------------------------------------------------------------
(* C7 *)

\* What every line carries whatever the printed value: the label of the
\* call, a register of the layout, and that register's two accepted values.
LineFrame(t, ln) ==
    /\ ln.text = text[t]
    /\ ln.reg \in (IF layout = "SSE" THEN {"MXCSR", "FPUCW"} ELSE {"FPUCW"})
    /\ ln.a = Hex04X(IF ln.reg = "MXCSR" THEN sse_a ELSE x87_a)
    /\ ln.b = Hex04X(IF ln.reg = "MXCSR" THEN sse_b ELSE x87_b)

\* C7 as claimed: every warning line carries the label, the register, its
\* two accepted values and the register's value after masking with the
\* reserved-bits mask, in four hex digits.
C7_Original ==
    \A t \in DOMAIN pc :
        \A i \in 1 .. Len(trace[t]) :
            trace[t][i].op = "LOG_L"
                => /\ LineFrame(t, trace[t][i])
                   /\ trace[t][i].actual =
                        Hex04X(BitAnd(RegOf(fenv[t], trace[t][i].reg),
                                      MaskOf(trace[t][i].reg)))
                   /\ Len(trace[t][i].actual) = 4

\* C7 as amended: every warning line carries the label, the register, its
\* two accepted values and the register's value as fegetenv read it, not
\* masked, in four hex digits for a 16-bit control word.
C7_Theorem ==
    \A t \in DOMAIN pc :
        \A i \in 1 .. Len(trace[t]) :
            trace[t][i].op = "LOG_L"
                => /\ LineFrame(t, trace[t][i])
                   /\ trace[t][i].actual =
                        Hex04X(RegOf(fenv[t], trace[t][i].reg))
                   /\ Len(trace[t][i].actual) = 4

\* A line about an FPUCW with a reserved bit set shows the reserved bit.
C7_Witness ==
    \E t \in DOMAIN pc :
        /\ Done(t) /\ ~snan
        /\ fenv[t].x87 = \H0072
        /\ \E i \in 1 .. Len(trace[t]) :
              /\ trace[t][i].op = "LOG_L" /\ trace[t][i].reg = "FPUCW"
              /\ trace[t][i].actual = <<0, 0, 7, 2>>
              /\ trace[t][i].text = "SimFrame"

---------------------------------------------------------------------------
(* C8 *)

\* C8: a call has called feraiseexcept exactly when the build supports
\* signaling NaNs and the environment read was invalid; then exactly once,
\* with FE_INVALID | FE_DIVBYZERO | FE_OVERFLOW, and after streflop_init.
C8_Theorem ==
    \A t \in DOMAIN pc :
        Done(t)
            => /\ Count(trace[t], "feraiseexcept")
                    = (IF snan /\ layout # "NONE" /\ ~ValidEnv(env0[t]) THEN 1 ELSE 0)
               /\ \A i \in 1 .. Len(trace[t]) :
                      trace[t][i].op = "feraiseexcept"
                          => /\ trace[t][i].excepts
                                  = {"FE_INVALID", "FE_DIVBYZERO", "FE_OVERFLOW"}
                             /\ \E j \in 1 .. (i - 1) :
                                    trace[t][j].op = "streflop_init<Simple>"

\* feraiseexcept has been called, in the legacy layout.
C8_Witness ==
    \E t \in DOMAIN pc :
        /\ layout = "X87" /\ snan /\ Done(t)
        /\ Count(trace[t], "feraiseexcept") = 1
        /\ ~ValidEnv(env0[t])

---------------------------------------------------------------------------
(* C9 *)

\* While thread t is between fegetenv and the reset, or has returned from a
\* call that found the environment valid, its environment is the one it
\* read, whatever the other threads did meanwhile; and what its call did is
\* decided by what it read.
OwnEnvDecides(t) ==
    /\ pc[t] \in {"log", "init"} => env[t] = fenv[t] /\ ~ValidEnv(fenv[t])
    /\ pc[t] \in {"entry", "log", "init"} => env[t] = env0[t]
    /\ (Done(t) /\ layout # "NONE")
          => /\ fenv[t] = env0[t]
             /\ ret[t] = ValidEnv(fenv[t])
             /\ ret[t] => env[t] = fenv[t] /\ trace[t] = <<FegetenvEv>>
             /\ ~ret[t] => /\ Len(Lines(trace[t])) = (IF layout = "SSE" THEN 2 ELSE 1)
                           /\ Count(trace[t], "streflop_init<Simple>") = 1
                           /\ env[t] = (IF snan THEN Feraiseexcept(StreflopInitSimple(fenv[t]))
                                                ELSE StreflopInitSimple(fenv[t]))

\* A step of thread t inside the function (the only steps that move pc[t]
\* from or to a place other than "idle") changes no other thread's state.
OthersUntouched ==
    \A t \in DOMAIN pc :
        pc'[t] # pc[t]
            => \A u \in DOMAIN pc \ {t} :
                   /\ env'[u] = env[u]
                   /\ fenv'[u] = fenv[u]
                   /\ ret'[u] = ret[u]
                   /\ trace'[u] = trace[u]
                   /\ pc'[u] = pc[u]

\* C9: with several threads calling the function in any interleaving, a call
\* of thread t reads and writes only t's environment, every other thread's
\* environment is unchanged by it, and what each call finds and does depends
\* only on the calling thread's own environment when it read it.
C9_Theorem ==
    /\ [](\A t \in DOMAIN pc : OwnEnvDecides(t))
    /\ [][OthersUntouched]_vars

\* One thread is about to reset its invalid environment while another has
\* returned from a call on a valid environment that differs from it.
C9_Witness ==
    \E t, u \in DOMAIN pc :
        /\ t # u
        /\ pc[t] = "init" /\ ~ValidEnv(env[t])
        /\ Done(u) /\ ret[u] /\ ValidEnv(env[u])
        /\ env[u] # StreflopInitSimple(env[t])

---------------------------------------------------------------------------
(* C10 *)

\* No fegetenv entry of tr comes after a streflop_init entry.
NoReadAfterReset(tr) ==
    \A i, j \in 1 .. Len(tr) :
        (tr[i].op = "streflop_init<Simple>" /\ tr[j].op = "fegetenv") => j < i

\* C10: every call, in every layout and build and from every environment,
\* returns; it reads the environment at most once, calls streflop_init at
\* most once and does not read the environment again after the reset.  With
\* neither layout the call does nothing.
C10_Theorem ==
    /\ [](\A t \in DOMAIN pc :
            /\ Count(trace[t], "fegetenv") <= 1
            /\ Count(trace[t], "streflop_init<Simple>") <= 1
            /\ NoReadAfterReset(trace[t])
            /\ (layout = "NONE" /\ Done(t)) => trace[t] = <<>> /\ env[t] = env0[t])
    /\ \A t \in MainThread : (pc[t] = "entry") ~> Done(t)

\* A call that reset the environment has returned, having read it once.
C10_Witness ==
    \E t \in DOMAIN pc :
        /\ Done(t)
        /\ Count(trace[t], "fegetenv") = 1
        /\ Count(trace[t], "streflop_init<Simple>") = 1
        /\ trace[t][1].op = "fegetenv"

====
